---- MODULE Spec2Model ----
(***************************************************************************)
(* Model of types.ShareProof (types/share_proof.go): Validate and          *)
(* VerifyProof, executed step by step over an untrusted ShareProof value.  *)
(*                                                                         *)
(* Start/End are Go int32 values: all arithmetic on them wraps modulo 2^32 *)
(* (Sub32/Add32 below).  The two consumed capabilities are idealised:      *)
(* the NMT inclusion verifier and the Merkle path verifier accept exactly  *)
(* the genuine openings of one fixed block (Block).  Elements of           *)
(* ShareProofs are taken to be non-nil and cap(Data) = len(Data).          *)
(*                                                                         *)
(* Further specifications: SpecWire (ToProto / ShareProofFromProto),       *)
(* SpecTx (core.TxSearch) and SpecConc (two concurrent invocations).       *)
(***************************************************************************)
EXTENDS Integers, Sequences, FiniteSets, TLC

\* ---------------------------------------------------------------- bounds
MaxRows == 3        \* most entries of ShareProofs / RowRoots in an adversarial proof
MaxData == 3        \* most entries of Data
MaxEdits == 1       \* most tamperings applied to a proof that verified

\* ------------------------------------------------------- int32 arithmetic
MaxInt32 == 2147483647
MinInt32 == (-2147483647) - 1
Half == 65536
HalfMid == 32768

Lo(x) == x % Half
Hi(x) == x \div Half
\* two's-complement wrap of a high half-word into [-2^15, 2^15)
WrapHi(h) == ((h + HalfMid) % Half) - HalfMid

\* Go: a - b on int32 (wraps modulo 2^32)
Sub32(a, b) ==
    LET lo == Lo(a) - Lo(b)
        borrow == IF lo < 0 THEN 1 ELSE 0
    IN  WrapHi(Hi(a) - Hi(b) - borrow) * Half + (lo + borrow * Half)

\* Go: a + b on int32 (wraps modulo 2^32)
Add32(a, b) ==
    LET lo == Lo(a) + Lo(b)
        carry == IF lo >= Half THEN 1 ELSE 0
    IN  WrapHi(Hi(a) + Hi(b) + carry) * Half + (lo - carry * Half)

\* Go: int32(len(s))
Int32OfLen(n) == Add32(n, 0)

\* ------------------------------------------------------------- the block
\* The committed block the verifiers are genuine for: two rows, one namespace.
Block == << <<"s0", "s1">>, <<"s2">> >>
RowRootOf == << "R0", "R1" >>
TotalRows == Len(Block)
TrueNamespace == "N"
DataRoot == "D"
Shares == {"s0", "s1", "s2"}
Roots == {"R0", "R1"}

\* leaves committed under a row root (none for an unknown root)
RowLeaves(r) ==
    IF \E k \in 1..TotalRows : RowRootOf[k] = r
    THEN Block[CHOOSE k \in 1..TotalRows : RowRootOf[k] = r]
    ELSE << >>

\* the sibling nodes of the genuine opening of leaves [start, end) under root r
GenuineNodes(r, start, end) == << r, start, end >>

\* the aunts of the genuine Merkle path of outer leaf `index`
GenuineAunts(index) == << DataRoot, index >>

\* ------------------------------------------------------------ data model
\* tmproto.NMTProof
NMTProof(start, end, nodes) == [Start |-> start, End |-> end, Nodes |-> nodes]

\* merkle.Proof
MerkleProof(total, index, leafHash, aunts) ==
    [Total |-> total, Index |-> index, LeafHash |-> leafHash, Aunts |-> aunts]

\* types.RowProof
RowProof(rowRoots, proofs, startRow, endRow) ==
    [RowRoots |-> rowRoots, Proofs |-> proofs, StartRow |-> startRow, EndRow |-> endRow]

\* types.ShareProof
ShareProof(data, shareProofs, namespaceID, rowProof) ==
    [Data |-> data, ShareProofs |-> shareProofs,
     NamespaceID |-> namespaceID, RowProof |-> rowProof]

\* ------------------------------------------------- consumed capabilities
\* nmt.NewInclusionProof(start, end, nodes, true).VerifyInclusion(h, nID, leaves, root):
\* accepts exactly the genuine opening of leaves [start, end) of the row with that root.
VerifyInclusion(start, end, nodes, nID, leaves, root) ==
    /\ nID = TrueNamespace
    /\ 0 <= start
    /\ start < end
    /\ end <= Len(RowLeaves(root))
    /\ nodes = GenuineNodes(root, start, end)
    /\ leaves = SubSeq(RowLeaves(root), start + 1, end)

\* merkle.Proof.Verify(rootHash, leaf): accepts exactly the genuine path of an outer leaf.
MerkleVerify(proof, rootHash, leaf) ==
    /\ rootHash = DataRoot
    /\ proof.Total = TotalRows
    /\ 0 <= proof.Index
    /\ proof.Index < proof.Total
    /\ proof.LeafHash = leaf
    /\ leaf = RowRootOf[proof.Index + 1]
    /\ proof.Aunts = GenuineAunts(proof.Index)

\* --------------------------------------------------------------- errors
ErrInvalidCounts == "invalid number of proofs, row roots, or data"
ErrNegativeIndex == "proof index cannot be negative"
ErrNonPositiveTotal == "proof total must be positive"
ErrInconsistent == "proof is not internally consistent"
ErrRowProof == "row proof invalid"
NoError == "nil"
Panicked == "panic"

\* RowProofValidate without the StartRow/EndRow bookkeeping
RowProofValidate_NoCount(rp, rootHash) ==
    IF Len(rp.Proofs) /= Len(rp.RowRoots)
    THEN ErrRowProof
    ELSE IF \E k \in 1..Len(rp.RowRoots) :
               \/ rp.Proofs[k].Index /= rp.StartRow + (k - 1)
               \/ ~MerkleVerify(rp.Proofs[k], rootHash, rp.RowRoots[k])
    THEN ErrRowProof
    ELSE NoError

\* RowProofValidate without the comparison of a path's index with its position
RowProofValidate_NoIndex(rp, rootHash) ==
    IF rp.StartRow > rp.EndRow \/ rp.EndRow - rp.StartRow + 1 /= Len(rp.RowRoots)
    THEN ErrRowProof
    ELSE IF Len(rp.Proofs) /= Len(rp.RowRoots)
    THEN ErrRowProof
    ELSE IF \E k \in 1..Len(rp.RowRoots) :
               ~MerkleVerify(rp.Proofs[k], rootHash, rp.RowRoots[k])
    THEN ErrRowProof
    ELSE NoError

\* RowProof.Validate(root)
RowProofValidate(rp, rootHash) ==
    IF rp.StartRow > rp.EndRow \/ rp.EndRow - rp.StartRow + 1 /= Len(rp.RowRoots)
    THEN ErrRowProof
    ELSE IF Len(rp.Proofs) /= Len(rp.RowRoots)
    THEN ErrRowProof
    ELSE IF \E k \in 1..Len(rp.RowRoots) :
               \/ rp.Proofs[k].Index /= rp.StartRow + (k - 1)
               \/ ~MerkleVerify(rp.Proofs[k], rootHash, rp.RowRoots[k])
    THEN ErrRowProof
    ELSE NoError

\* ------------------------------------------------ ShareProof.Validate steps
\* the loop of Validate summing proof.End - proof.Start into an int32
RECURSIVE NumberOfSharesInProofs(_)
NumberOfSharesInProofs(shareProofs) ==
    IF shareProofs = << >> THEN 0
    ELSE LET n == Len(shareProofs)
             proof == shareProofs[n]
         IN  Add32(NumberOfSharesInProofs(SubSeq(shareProofs, 1, n - 1)),
                   Sub32(proof.End, proof.Start))

\* CountMismatch that also rejects a proof without rows
CountMismatch_RejectEmpty(p) ==
    \/ Len(p.ShareProofs) = 0
    \/ Len(p.RowProof.RowRoots) /= Len(p.ShareProofs)
    \/ Int32OfLen(Len(p.Data)) /= NumberOfSharesInProofs(p.ShareProofs)

\* CountMismatch without the comparison of the number of row roots
CountMismatch_DataOnly(p) ==
    Int32OfLen(Len(p.Data)) /= NumberOfSharesInProofs(p.ShareProofs)

\* CountMismatch without the comparison of len(Data) with the declared shares
CountMismatch_RowsOnly(p) ==
    Len(p.RowProof.RowRoots) /= Len(p.ShareProofs)

\* the condition of the first `if` of Validate
CountMismatch(p) ==
    \/ Len(p.RowProof.RowRoots) /= Len(p.ShareProofs)
    \/ Int32OfLen(Len(p.Data)) /= NumberOfSharesInProofs(p.ShareProofs)

\* RangeErrorOf without the check of the total
RangeErrorOf_NoTotal(proof) ==
    IF proof.Start < 0 THEN ErrNegativeIndex ELSE NoError

\* RangeErrorOf rejecting a start of zero as well
RangeErrorOf_ZeroStart(proof) ==
    IF proof.Start <= 0 THEN ErrNegativeIndex
    ELSE IF Sub32(proof.End, proof.Start) <= 0 THEN ErrNonPositiveTotal
    ELSE NoError

\* the checks Validate makes on one proof of its second loop
RangeErrorOf(proof) ==
    IF proof.Start < 0 THEN ErrNegativeIndex
    ELSE IF Sub32(proof.End, proof.Start) <= 0 THEN ErrNonPositiveTotal
    ELSE NoError

\* the second loop of Validate: the error of the first offending proof
RangeError(shareProofs) ==
    IF \E k \in 1..Len(shareProofs) : RangeErrorOf(shareProofs[k]) /= NoError
    THEN LET k == CHOOSE j \in 1..Len(shareProofs) :
                     /\ RangeErrorOf(shareProofs[j]) /= NoError
                     /\ \A h \in 1..(j - 1) : RangeErrorOf(shareProofs[h]) = NoError
         IN  RangeErrorOf(shareProofs[k])
    ELSE NoError

\* ------------------------------------------------ VerifyProof loop body
\* sharesUsed := proof.End - proof.Start
SharesUsed(proof) == Sub32(proof.End, proof.Start)

\* the upper index of sp.Data[cursor:sharesUsed+cursor]
SliceHigh(proof, cur) == Add32(SharesUsed(proof), cur)

\* NextCursor with the cursor never advanced
NextCursor_Stuck(proof, cur) == cur

\* the cursor after a row: cursor += sharesUsed
NextCursor(proof, cur) == Add32(cur, SharesUsed(proof))

\* Go's run-time check of the slice expression s[low:high] with cap(s) = n
SliceInBounds(low, high, n) == 0 <= low /\ low <= high /\ high <= n

\* Go's run-time check of the index expression s[k] (k counted from 1 here)
IndexInBounds(k, n) == 1 <= k /\ k <= n

\* RowOutcome in which only the last row's verdict counts
RowOutcome_LastOnly(p, k, cur) ==
    LET proof == p.ShareProofs[k]
        high == SliceHigh(proof, cur)
    IN  IF ~SliceInBounds(cur, high, Len(p.Data)) THEN "panicSlice"
        ELSE IF ~IndexInBounds(k, Len(p.RowProof.RowRoots)) THEN "panicIndex"
        ELSE IF k < Len(p.ShareProofs) THEN "accept"
        ELSE IF VerifyInclusion(proof.Start, proof.End, proof.Nodes, p.NamespaceID,
                                SubSeq(p.Data, cur + 1, high), p.RowProof.RowRoots[k])
        THEN "accept"
        ELSE "reject"

\* outcome of one iteration of the loop of VerifyProof for row k at cursor cur
RowOutcome(p, k, cur) ==
    LET proof == p.ShareProofs[k]
        high == SliceHigh(proof, cur)
    IN  IF ~SliceInBounds(cur, high, Len(p.Data)) THEN "panicSlice"
        ELSE IF ~IndexInBounds(k, Len(p.RowProof.RowRoots)) THEN "panicIndex"
        ELSE IF VerifyInclusion(proof.Start, proof.End, proof.Nodes, p.NamespaceID,
                                SubSeq(p.Data, cur + 1, high), p.RowProof.RowRoots[k])
        THEN "accept"
        ELSE "reject"

\* ------------------------------------------------------ untrusted inputs
\* 0-based row index of a row root in the block (0 for an unknown root)
RowIndexOf(r) ==
    IF \E k \in 1..TotalRows : RowRootOf[k] = r
    THEN (CHOOSE k \in 1..TotalRows : RowRootOf[k] = r) - 1
    ELSE 0

BadNodes == << "bad", 0, 0 >>
BadAunts == << "bad", 0 >>

\* the Merkle paths a producer derives for the row roots rr
PathsFor(rr, good) ==
    [k \in 1..Len(rr) |->
        MerkleProof(TotalRows, RowIndexOf(rr[k]), rr[k],
                    IF good \/ k > 1 THEN GenuineAunts(RowIndexOf(rr[k])) ELSE BadAunts)]

\* first absolute row of a producer's RowProof for rr
FirstRowOf(rr) == IF rr = << >> THEN 1 ELSE RowIndexOf(rr[1])

\* RowProofs over rr: [kind = 1] as a producer builds it, [2] EndRow one too
\* large, [3] first path not genuine
RowProofFor(rr, kind) ==
    RowProof(rr, PathsFor(rr, kind /= 3), FirstRowOf(rr),
             FirstRowOf(rr) + Len(rr) - (IF kind = 2 THEN 0 ELSE 1))

\* the per-row proofs for the ranges rg over the row roots rr
ShareProofsFor(rg, rr, goodNodes) ==
    [k \in 1..Len(rg) |->
        NMTProof(rg[k][1], rg[k][2],
                 IF ~goodNodes /\ k = 1 THEN BadNodes
                 ELSE GenuineNodes(IF k <= Len(rr) THEN rr[k] ELSE RowRootOf[1],
                                   rg[k][1], rg[k][2]))]

\* int32 ranges <<Start, End>> an attacker may declare, including the extremes
WideRanges ==
    { <<0, 1>>, <<0, 2>>, <<1, 1>>, <<2, 1>>, <<-1, 1>>,
      <<MaxInt32, MinInt32>>, <<0, MaxInt32>> }

\* ranges that lie inside a row of the block
RowRanges == { <<0, 1>>, <<0, 2>>, <<1, 2>> }

ShareList == << "s0", "s1", "s2" >>
DataOfLen(n) == [k \in 1..n |-> ShareList[((k - 1) % Len(ShareList)) + 1]]
RootsOfLen(n) == [k \in 1..n |-> RowRootOf[((k - 1) % TotalRows) + 1]]

\* proofs with arbitrary counts and extreme ranges
StructuralInputs ==
    { [p |-> ShareProof(DataOfLen(d), ShareProofsFor(rg, RootsOfLen(r), TRUE),
                        TrueNamespace, RowProofFor(RootsOfLen(r), 1)),
       root |-> DataRoot] :
        d \in 0..MaxData, r \in 0..MaxRows,
        rg \in UNION { [1..n -> WideRanges] : n \in 0..MaxRows } }

\* namespace / nodes / row proof / data root variations: <<nID, goodNodes, kind, root>>
Variations ==
    { <<TrueNamespace, TRUE, 1, DataRoot>>, <<"M", TRUE, 1, DataRoot>>,
      <<TrueNamespace, FALSE, 1, DataRoot>>, <<TrueNamespace, TRUE, 2, DataRoot>>,
      <<TrueNamespace, TRUE, 3, DataRoot>>, <<TrueNamespace, TRUE, 1, "X">> }

\* proofs over rows of the block with arbitrary shares and row roots
ContentInputs ==
    { [p |-> ShareProof(data, ShareProofsFor(rg, rr, v[2]), v[1], RowProofFor(rr, v[3])),
       root |-> v[4]] :
        data \in UNION { [1..d -> Shares] : d \in 0..MaxData },
        rr \in UNION { [1..n -> Roots] : n \in 0..TotalRows },
        rg \in UNION { [1..n -> RowRanges] : n \in 0..TotalRows },
        v \in Variations }

Inputs == StructuralInputs \cup { x \in ContentInputs : Len(x.p.ShareProofs) = Len(x.p.RowProof.RowRoots) }

\* ------------------------------------------------------------------ state
VARIABLES
    sp,        \* the ShareProof under validation (the receiver)
    root,      \* the data root handed to Validate
    op,        \* the method invoked: "Validate", "VerifyProof" or "none"
    pc,        \* position of the invocation
    i,         \* VerifyProof: index of the row being visited (from 1)
    cursor,    \* VerifyProof: cursor
    valid,     \* Validate: the value VerifyProof returned
    result,    \* what the invocation returned ("none" while running)
    trace,     \* the slice/verifier steps of VerifyProof so far
    edits,     \* tamperings and repeated calls applied to the proof so far
    prev,      \* what the invocation before the last tampering / repeated call returned
    wire,      \* a wire conversion: the message, the ShareProof decoded, the message re-encoded
    tx,        \* a TxSearch request and its response
    inv        \* concurrent invocations on sp: the locals of each

vars == << sp, root, op, pc, i, cursor, valid, result, trace, edits, prev, wire, tx, inv >>

\* the state of the other components, untouched by a single invocation on sp
aux == << wire, tx, inv >>

NoWire == [pc |-> "none"]
NoTx == [pc |-> "none"]
NoInv == << >>

NoPrev ==
    [kind |-> "none", verified |-> FALSE, passed |-> FALSE, validated |-> FALSE,
     rowValid |-> FALSE, op |-> "none", result |-> "none"]

Init ==
    /\ \E x \in Inputs : sp = x.p /\ root = x.root
    /\ op = "none"
    /\ pc = "idle"
    /\ i = 1
    /\ cursor = 0
    /\ valid = FALSE
    /\ result = "none"
    /\ trace = << >>
    /\ edits = 0
    /\ prev = NoPrev
    /\ wire = NoWire
    /\ tx = NoTx
    /\ inv = NoInv

\* ----------------------------------------------------------------- actions
\* Locals0 with a cursor that outlives the call
Locals0_KeepCursor ==
    i' = 1 /\ cursor' = cursor /\ valid' = FALSE /\ result' = "none" /\ trace' = << >>

\* the locals of a fresh invocation
Locals0 == i' = 1 /\ cursor' = 0 /\ valid' = FALSE /\ result' = "none" /\ trace' = << >>

\* a caller invokes sp.Validate(root)
CallValidate ==
    /\ pc = "idle"
    /\ op' = "Validate"
    /\ pc' = "count"
    /\ Locals0
    /\ UNCHANGED << sp, root, edits, prev >>
    /\ UNCHANGED aux

\* a caller invokes sp.VerifyProof() directly
CallVerifyProof ==
    /\ pc = "idle"
    /\ op' = "VerifyProof"
    /\ pc' = "verify"
    /\ Locals0
    /\ UNCHANGED << sp, root, edits, prev >>
    /\ UNCHANGED aux

\* Validate: the summing loop and the count check
CountStep ==
    /\ pc = "count"
    /\ IF CountMismatch(sp)
       THEN result' = ErrInvalidCounts /\ pc' = "done"
       ELSE result' = result /\ pc' = "range"
    /\ UNCHANGED << sp, root, op, i, cursor, valid, trace, edits, prev >>
    /\ UNCHANGED aux

\* Validate: the loop checking every proof's range
RangeStep ==
    /\ pc = "range"
    /\ IF RangeError(sp.ShareProofs) /= NoError
       THEN result' = RangeError(sp.ShareProofs) /\ pc' = "done"
       ELSE result' = result /\ pc' = "verify"
    /\ UNCHANGED << sp, root, op, i, cursor, valid, trace, edits, prev >>
    /\ UNCHANGED aux

\* VerifyProof: one iteration of the loop over sp.ShareProofs
VerifyRow ==
    /\ pc = "verify"
    /\ i <= Len(sp.ShareProofs)
    /\ LET proof == sp.ShareProofs[i]
           out == RowOutcome(sp, i, cursor)
       IN  /\ trace' = Append(trace, [row |-> i, low |-> cursor,
                                      high |-> SliceHigh(proof, cursor), outcome |-> out])
           /\ IF out = "accept"
              THEN /\ cursor' = NextCursor(proof, cursor)
                   /\ i' = i + 1
                   /\ UNCHANGED << pc, valid, result >>
              ELSE IF out = "reject"
              THEN /\ valid' = FALSE
                   /\ pc' = "verified"
                   /\ UNCHANGED << i, cursor, result >>
              ELSE /\ result' = Panicked
                   /\ pc' = "done"
                   /\ UNCHANGED << i, cursor, valid >>
    /\ UNCHANGED << sp, root, op, edits, prev >>
    /\ UNCHANGED aux

\* VerifyProof: the loop is exhausted, return true
VerifyEnd ==
    /\ pc = "verify"
    /\ i > Len(sp.ShareProofs)
    /\ valid' = TRUE
    /\ pc' = "verified"
    /\ UNCHANGED << sp, root, op, i, cursor, result, trace, edits, prev >>
    /\ UNCHANGED aux

\* VerifyProof called directly returns its boolean to the caller
VerifyProofReturn ==
    /\ pc = "verified"
    /\ op = "VerifyProof"
    /\ result' = IF valid THEN "true" ELSE "false"
    /\ pc' = "done"
    /\ UNCHANGED << sp, root, op, i, cursor, valid, trace, edits, prev >>
    /\ UNCHANGED aux

\* Validate: `if !valid` after VerifyProof
ValidStep ==
    /\ pc = "verified"
    /\ op = "Validate"
    /\ IF ~valid
       THEN result' = ErrInconsistent /\ pc' = "done"
       ELSE result' = result /\ pc' = "rowproof"
    /\ UNCHANGED << sp, root, op, i, cursor, valid, trace, edits, prev >>
    /\ UNCHANGED aux

\* Validate: sp.RowProof.Validate(root), its error returned as is, else nil
RowProofStep ==
    /\ pc = "rowproof"
    /\ result' = RowProofValidate(sp.RowProof, root)
    /\ pc' = "done"
    /\ UNCHANGED << sp, root, op, i, cursor, valid, trace, edits, prev >>
    /\ UNCHANGED aux

\* a caller invokes sp.RowProof.Validate(root) on its own
CallRowProofValidate ==
    /\ pc = "idle"
    /\ op' = "RowProof.Validate"
    /\ pc' = "rowproof"
    /\ Locals0
    /\ UNCHANGED << sp, root, edits, prev >>
    /\ UNCHANGED aux

\* a finished invocation in which VerifyProof returned true
Verified == pc = "done" /\ valid

\* what is remembered of that invocation when its proof is tampered with
Remember(kind) ==
    [kind |-> kind, verified |-> valid,
     passed |-> (~CountMismatch(sp) /\ RangeError(sp.ShareProofs) = NoError),
     validated |-> (op = "Validate" /\ result = NoError),
     rowValid |-> (pc = "done" /\ op \in {"Validate", "RowProof.Validate"} /\ result = NoError),
     op |-> op, result |-> result]

\* an attacker replaces one share of a proof that verified
TamperData ==
    /\ Verified
    /\ edits < MaxEdits
    /\ \E k \in 1..Len(sp.Data), v \in Shares :
          /\ v /= sp.Data[k]
          /\ sp' = [sp EXCEPT !.Data[k] = v]
    /\ prev' = Remember("replace")
    /\ edits' = edits + 1
    /\ op' = "none"
    /\ pc' = "idle"
    /\ Locals0
    /\ UNCHANGED root
    /\ UNCHANGED aux

\* an attacker reorders the shares of a proof that verified
ReorderData ==
    /\ Verified
    /\ edits < MaxEdits
    /\ \E f \in [1..Len(sp.Data) -> 1..Len(sp.Data)] :
          /\ \A a, b \in 1..Len(sp.Data) : a /= b => f[a] /= f[b]
          /\ [k \in 1..Len(sp.Data) |-> sp.Data[f[k]]] /= sp.Data
          /\ sp' = [sp EXCEPT !.Data = [k \in 1..Len(sp.Data) |-> sp.Data[f[k]]]]
    /\ prev' = Remember("reorder")
    /\ edits' = edits + 1
    /\ op' = "none"
    /\ pc' = "idle"
    /\ Locals0
    /\ UNCHANGED root
    /\ UNCHANGED aux

\* an attacker swaps two row roots together with their paths in a RowProof
\* that validated, StartRow and EndRow unchanged
SwapRows ==
    /\ pc = "done"
    /\ op \in {"Validate", "RowProof.Validate"}
    /\ result = NoError
    /\ edits < MaxEdits
    /\ \E a, b \in 1..Len(sp.RowProof.RowRoots) :
          /\ a < b
          /\ sp' = [sp EXCEPT !.RowProof.RowRoots[a] = sp.RowProof.RowRoots[b],
                              !.RowProof.RowRoots[b] = sp.RowProof.RowRoots[a],
                              !.RowProof.Proofs[a] = sp.RowProof.Proofs[b],
                              !.RowProof.Proofs[b] = sp.RowProof.Proofs[a]]
    /\ prev' = Remember("swap")
    /\ edits' = edits + 1
    /\ op' = "none"
    /\ pc' = "idle"
    /\ Locals0
    /\ UNCHANGED root
    /\ UNCHANGED aux

\* the caller invokes the same method again on the same proof and root
CallAgain ==
    /\ pc = "done"
    /\ edits < MaxEdits
    /\ prev' = Remember("again")
    /\ edits' = edits + 1
    /\ pc' = CASE op = "Validate" -> "count"
               [] op = "VerifyProof" -> "verify"
               [] OTHER -> "rowproof"
    /\ Locals0
    /\ UNCHANGED << sp, root, op >>
    /\ UNCHANGED aux

Next ==
    \/ CallValidate
    \/ CallRowProofValidate
    \/ SwapRows
    \/ CallAgain
    \/ CallVerifyProof
    \/ CountStep
    \/ RangeStep
    \/ VerifyRow
    \/ VerifyEnd
    \/ VerifyProofReturn
    \/ ValidStep
    \/ RowProofStep
    \/ TamperData
    \/ ReorderData

Spec == Init /\ [][Next]_vars

\* ========================================================= wire conversions
\* ToProto / ShareProofFromProto, each executed as one step on a message or a
\* ShareProof.  Messages are as decoded from bytes: row_proof may be absent, the
\* elements of proofs are never nil.  A nil byte string encodes as the empty one.
MaxWire == 2        \* most entries of row_roots / proofs in a message

\* the variables of a single invocation on sp
main == << sp, root, op, pc, i, cursor, valid, result, trace, edits, prev >>

\* a nil pointer, an absent value
NoValue == [nil |-> TRUE]
NilBytes == ""

\* tmproto (wire) messages: crypto.Proof, RowProof, ShareProof
PbProof(total, index, leafHash, aunts) ==
    [total |-> total, index |-> index, leaf_hash |-> leafHash, aunts |-> aunts]

PbRowProof(rowRoots, proofs, startRow, endRow) ==
    [row_roots |-> rowRoots, proofs |-> proofs, start_row |-> startRow, end_row |-> endRow]

PbShareProof(data, shareProofs, namespaceId, rowProof) ==
    [data |-> data, share_proofs |-> shareProofs,
     namespace_id |-> namespaceId, row_proof |-> rowProof]

\* ShareProofFromProto panics: pb.RowProof is nil, or pb.RowProof.RowRoots[i] is
\* indexed past its end by the loop over pb.RowProof.Proofs
FromProtoPanics(pb) ==
    \/ pb.row_proof = NoValue
    \/ Len(pb.row_proof.proofs) > Len(pb.row_proof.row_roots)

\* rowRoots after the loop: only the entries below len(Proofs) are assigned
FromProtoRowRoots(rp) ==
    [k \in 1..Len(rp.row_roots) |->
        IF k <= Len(rp.proofs) THEN rp.row_roots[k] ELSE NilBytes]

\* FromProtoProofs without the aunts
FromProtoProofs_NoAunts(rp) ==
    [k \in 1..Len(rp.proofs) |->
        MerkleProof(rp.proofs[k].total, rp.proofs[k].index,
                    rp.proofs[k].leaf_hash, << >>)]

\* rowProofs after the loop
FromProtoProofs(rp) ==
    [k \in 1..Len(rp.proofs) |->
        MerkleProof(rp.proofs[k].total, rp.proofs[k].index,
                    rp.proofs[k].leaf_hash, rp.proofs[k].aunts)]

\* the ShareProof returned by ShareProofFromProto(pb) when it does not panic
ShareProofFromProto(pb) ==
    ShareProof(pb.data, pb.share_proofs, pb.namespace_id,
               RowProof(FromProtoRowRoots(pb.row_proof), FromProtoProofs(pb.row_proof),
                        pb.row_proof.start_row, pb.row_proof.end_row))

\* ToProto panics: sp.RowProof.Proofs[i] is indexed past its end by the loop
\* over sp.RowProof.RowRoots
ToProtoPanics(p) == Len(p.RowProof.RowRoots) > Len(p.RowProof.Proofs)

\* (*merkle.Proof).ToProto: nil for nil, else a field-by-field copy
ProofToProto(mp) ==
    IF mp = NoValue THEN NoValue
    ELSE PbProof(mp.Total, mp.Index, mp.LeafHash, mp.Aunts)

\* rowProofs after the loop: only the entries below len(RowRoots) are assigned
ToProtoProofs(rp) ==
    [k \in 1..Len(rp.Proofs) |->
        IF k <= Len(rp.RowRoots) THEN ProofToProto(rp.Proofs[k]) ELSE NoValue]

\* the message returned by sp.ToProto() when it does not panic
ToProto(p) ==
    PbShareProof(p.Data, p.ShareProofs, p.NamespaceID,
                 PbRowProof(p.RowProof.RowRoots, ToProtoProofs(p.RowProof),
                            p.RowProof.StartRow, p.RowProof.EndRow))

\* sequences over S of at most n entries
SeqsUpTo(S, n) == UNION {[1..k -> S] : k \in 0..n}

WireRoots == {"R0", "R1"}
WirePaths == {PbProof(2, 0, "R0", <<"R1">>), PbProof(1, 1, NilBytes, << >>)}

\* the row_proof of a message: absent, or any numbers of roots and paths
WireRowProofs ==
    {NoValue} \cup
    {PbRowProof(rr, pp, s, e) :
        rr \in SeqsUpTo(WireRoots, MaxWire), pp \in SeqsUpTo(WirePaths, MaxWire),
        s \in {0, 1}, e \in {0, 1}}

\* the messages handed to ShareProofFromProto
Messages ==
    {PbShareProof(d, ps, "N", rp) :
        d \in {<< >>, <<"s0">>},
        ps \in {<< >>, <<NMTProof(0, 1, <<"n0">>)>>},
        rp \in WireRowProofs}

\* the ShareProofs handed to ToProto by a caller that built them itself
WireProofs ==
    {ShareProof(<<"s0">>, <<NMTProof(0, 1, <<"n0">>)>>, "N", RowProof(rr, pp, 0, e)) :
        rr \in SeqsUpTo(WireRoots, MaxWire),
        pp \in SeqsUpTo({MerkleProof(2, 0, "R0", <<"R1">>), MerkleProof(1, 1, NilBytes, << >>)},
                        MaxWire),
        e \in {0, 1}}

\* wire.pc: "pb" a message to decode, "decoded" a ShareProof to encode,
\* "encoded" the message produced, "panic" the conversion crashed
WireOf(at, pb, p) == [pc |-> at, pb |-> pb, sp |-> p, out |-> NoValue, err |-> "none"]

InitWire ==
    /\ sp = ShareProof(<< >>, << >>, TrueNamespace, RowProof(<< >>, << >>, 0, 0))
    /\ root = DataRoot
    /\ op = "none"
    /\ pc = "idle"
    /\ i = 1
    /\ cursor = 0
    /\ valid = FALSE
    /\ result = "none"
    /\ trace = << >>
    /\ edits = 0
    /\ prev = NoPrev
    /\ tx = NoTx
    /\ inv = NoInv
    /\ \/ \E m \in Messages : wire = WireOf("pb", m, NoValue)
       \/ \E p \in WireProofs : wire = WireOf("decoded", NoValue, p)

\* sp, err := ShareProofFromProto(pb)
FromProtoCall ==
    /\ wire.pc = "pb"
    /\ wire' = IF FromProtoPanics(wire.pb)
               THEN [wire EXCEPT !.pc = "panic", !.err = Panicked]
               ELSE [wire EXCEPT !.pc = "decoded", !.sp = ShareProofFromProto(wire.pb),
                                 !.err = NoError]
    /\ UNCHANGED << main, tx, inv >>

\* out := sp.ToProto()
ToProtoCall ==
    /\ wire.pc = "decoded"
    /\ wire' = IF ToProtoPanics(wire.sp)
               THEN [wire EXCEPT !.pc = "panic", !.err = Panicked]
               ELSE [wire EXCEPT !.pc = "encoded", !.out = ToProto(wire.sp)]
    /\ UNCHANGED << main, tx, inv >>

NextWire ==
    \/ FromProtoCall
    \/ ToProtoCall

SpecWire == InitWire /\ [][NextWire]_vars

\* ================================================================ TxSearch
\* core.TxSearch (rpc handler), executed as one step on a request.  The indexer,
\* the query parser, the block store and the helpers validatePerPage,
\* validatePage and validateSkipCount are consumed: each returns any value of
\* its type.
MaxResults == 3     \* most transactions the indexer returns for a query
MaxPerPage == 2     \* largest value validatePerPage returns

\* the (Height, Index) of an indexed transaction
TxKeys == {[Height |-> h, Index |-> x] : h \in 1..2, x \in 0..1}

\* what env.TxIndexer.Search may return: distinct transactions in any order
SearchResults ==
    {s \in SeqsUpTo(TxKeys, MaxResults) :
        \A a \in 1..Len(s) : \A b \in 1..Len(s) : a /= b => s[a] /= s[b]}

\* the `less` of the sort.Slice call under case "desc"
LessDesc(a, b) ==
    IF a.Height = b.Height THEN a.Index > b.Index ELSE a.Height > b.Height

\* the `less` of the sort.Slice call under case "asc", ""
LessAsc(a, b) ==
    IF a.Height = b.Height THEN a.Index < b.Index ELSE a.Height < b.Height

Less(orderBy, a, b) == IF orderBy = "desc" THEN LessDesc(a, b) ELSE LessAsc(a, b)

\* s without its k-th entry
Without(s, k) == SubSeq(s, 1, k - 1) \o SubSeq(s, k + 1, Len(s))

\* SortSlice leaving the results in the order the indexer returned them
SortSlice_Unsorted(s, orderBy) == s

\* sort.Slice(results, less): the entries are distinct, so the order is unique
RECURSIVE SortSlice(_, _)
SortSlice(s, orderBy) ==
    IF s = << >> THEN << >>
    ELSE LET k == CHOOSE a \in 1..Len(s) :
                      \A b \in 1..Len(s) : b /= a => Less(orderBy, s[a], s[b])
         IN  << s[k] >> \o SortSlice(Without(s, k), orderBy)

\* PageSize without the cap of perPage
PageSize_Full(perPage, totalCount, skipCount) == totalCount - skipCount

\* tmmath.MinInt(perPage, totalCount-skipCount)
PageSize(perPage, totalCount, skipCount) ==
    IF perPage < totalCount - skipCount THEN perPage ELSE totalCount - skipCount

ErrIndexing == "transaction indexing is disabled"
ErrQuery == "query error"
ErrSearch == "search error"
ErrOrderBy == "expected order_by to be either asc or desc or empty"
ErrPage == "page error"

OrderBys == {"asc", "desc", "", "other"}
\* what is wrong with the environment and the query, independently of each other
Failures == SUBSET {"null indexer", "bad query", "search fails"}
PerPageValues == -1..MaxPerPage
SkipValues == -1..(MaxResults + 1)

\* the loop over results[skipCount : skipCount+pageSize] panics: an index below
\* zero, or (prove) a block the store no longer has
PagePanics(req, sorted, skipCount, pageSize) ==
    \E n \in skipCount..(skipCount + pageSize - 1) :
        \/ n < 0
        \/ n >= Len(sorted)
        \/ req.prove /\ sorted[n + 1].Height \in req.pruned

\* apiResults after the loop
ApiResults(req, sorted, skipCount, pageSize) ==
    [n \in 1..pageSize |->
        [Height |-> sorted[skipCount + n].Height, Index |-> sorted[skipCount + n].Index,
         Proof |-> req.prove]]

\* the calls into the query parser, the indexer and sort made by a run that got
\* as far as `stage`
CallsUpTo(stage) ==
    IF stage = "indexer check" THEN << >>
    ELSE IF stage = "parse" THEN << "tmquery.New" >>
    ELSE IF stage = "search" THEN << "tmquery.New", "Search" >>
    ELSE << "tmquery.New", "Search", "sort.Slice" >>

\* the first failing stage of a request, "paginate" if none fails before it
StageReached(req) ==
    IF "null indexer" \in req.failure THEN "indexer check"
    ELSE IF "bad query" \in req.failure THEN "parse"
    ELSE IF "search fails" \in req.failure THEN "search"
    ELSE IF req.orderBy \notin {"desc", "asc", ""} THEN "search"
    ELSE "paginate"

Failed(req, err) ==
    [req EXCEPT !.pc = "done", !.err = err, !.calls = CallsUpTo(StageReached(req))]

\* the pagination part of TxSearch, over the sorted results
Paginate(req, sorted, perPage, pageErr, skipCount) ==
    LET totalCount == Len(sorted)
        pageSize == PageSize(perPage, totalCount, skipCount)
        page == [perPage |-> perPage, skipCount |-> skipCount, pageSize |-> pageSize,
                 totalCount |-> totalCount, sorted |-> sorted]
    IN  IF pageErr THEN Failed(req, ErrPage)
        ELSE IF pageSize < 0 \/ PagePanics(req, sorted, skipCount, pageSize)
        THEN [req EXCEPT !.pc = "done", !.err = Panicked, !.page = page,
                         !.calls = CallsUpTo("paginate")]
        ELSE [req EXCEPT !.pc = "done", !.err = NoError, !.page = page,
                         !.calls = CallsUpTo("paginate"),
                         !.out = [Txs |-> ApiResults(req, sorted, skipCount, pageSize),
                                  TotalCount |-> totalCount]]

\* TxSearch(ctx, query, prove, pagePtr, perPagePtr, orderBy); perPage, pageErr and
\* skipCount are what the three helpers return
TxSearch(req, perPage, pageErr, skipCount) ==
    IF "null indexer" \in req.failure THEN Failed(req, ErrIndexing)
    ELSE IF "bad query" \in req.failure THEN Failed(req, ErrQuery)
    ELSE IF "search fails" \in req.failure THEN Failed(req, ErrSearch)
    ELSE IF req.orderBy \notin {"desc", "asc", ""} THEN Failed(req, ErrOrderBy)
    ELSE Paginate(req, SortSlice(req.results, req.orderBy), perPage, pageErr, skipCount)

Requests ==
    [pc : {"request"}, results : SearchResults, orderBy : OrderBys, prove : BOOLEAN,
     pruned : {{}, {1}}, failure : Failures,
     err : {"none"}, page : {NoValue}, out : {NoValue}, calls : {<< >>}]

InitTx ==
    /\ sp = ShareProof(<< >>, << >>, TrueNamespace, RowProof(<< >>, << >>, 0, 0))
    /\ root = DataRoot
    /\ op = "none"
    /\ pc = "idle"
    /\ i = 1
    /\ cursor = 0
    /\ valid = FALSE
    /\ result = "none"
    /\ trace = << >>
    /\ edits = 0
    /\ prev = NoPrev
    /\ wire = NoWire
    /\ inv = NoInv
    /\ tx \in Requests

TxSearchCall ==
    /\ tx.pc = "request"
    /\ \E perPage \in PerPageValues, pageErr \in BOOLEAN, skipCount \in SkipValues :
           tx' = TxSearch(tx, perPage, pageErr, skipCount)
    /\ UNCHANGED << main, wire, inv >>

NextTx == TxSearchCall

SpecTx == InitTx /\ [][NextTx]_vars

\* ==================================================== concurrent invocations
\* Two goroutines invoke Validate / VerifyProof on the same ShareProof, their
\* steps interleaved.  sp and root are shared and only read.  Each invocation's
\* cursor lives in a memory cell (its own stack slot); a cell records who wrote it
\* last.  A panic is the outcome of the invocation that raised it.
Procs == {"a", "b"}
ConcOps == {"Validate", "VerifyProof"}

\* CursorCell with one cell shared by every invocation
CursorCell_Shared(p) == "a"

\* the cell holding the local variable cursor of invocation p
CursorCell(p) == p

\* the proofs the goroutines share: two rows, no data or three shares
ConcData == {<< >>, <<"s0", "s1", "s2">>, <<"s0", "s1", "s0">>}
ConcInputs == {x \in Inputs : Len(x.p.ShareProofs) = 2 /\ x.p.Data \in ConcData}

\* the locals of an invocation not yet started
IdleLocals == [op |-> "none", pc |-> "idle", i |-> 1, valid |-> FALSE, result |-> "none"]

InitConc ==
    /\ \E x \in ConcInputs : sp = x.p /\ root = x.root
    /\ op = "none"
    /\ pc = "idle"
    /\ i = 1
    /\ cursor = 0
    /\ valid = FALSE
    /\ result = "none"
    /\ trace = << >>
    /\ edits = 0
    /\ prev = NoPrev
    /\ wire = NoWire
    /\ tx = NoTx
    /\ inv = [loc |-> [p \in Procs |-> IdleLocals],
              cursor |-> [c \in Procs |-> 0],
              writer |-> [c \in Procs |-> "none"],
              observed |-> FALSE]

\* invocation p reads its cursor: it observes another's write if the cell was
\* last written by another invocation
ReadsForeign(p) == inv.writer[CursorCell(p)] \notin {p, "none"}

\* inv after p stored v into its cursor and moved to the locals l
Stored(p, v, l) ==
    [inv EXCEPT !.loc[p] = l, !.cursor[CursorCell(p)] = v, !.writer[CursorCell(p)] = p]

\* inv after p read its cursor and moved to the locals l
Loaded(p, l) ==
    [inv EXCEPT !.loc[p] = l, !.observed = inv.observed \/ ReadsForeign(p)]

\* go sp.Validate(root) / go sp.VerifyProof(); VerifyProof starts with cursor := int32(0)
ConcCall(p) ==
    /\ inv.loc[p].pc = "idle"
    /\ \E o \in ConcOps :
          inv' = IF o = "Validate"
                 THEN [inv EXCEPT !.loc[p] = [IdleLocals EXCEPT !.op = o, !.pc = "count"]]
                 ELSE Stored(p, 0, [IdleLocals EXCEPT !.op = o, !.pc = "verify"])
    /\ UNCHANGED << main, wire, tx >>

\* Validate: the summing loop and the count check
ConcCount(p) ==
    /\ inv.loc[p].pc = "count"
    /\ inv' = [inv EXCEPT !.loc[p] =
                  IF CountMismatch(sp)
                  THEN [inv.loc[p] EXCEPT !.result = ErrInvalidCounts, !.pc = "done"]
                  ELSE [inv.loc[p] EXCEPT !.pc = "range"]]
    /\ UNCHANGED << main, wire, tx >>

\* Validate: the range loop, then the call of VerifyProof (cursor := int32(0))
ConcRange(p) ==
    /\ inv.loc[p].pc = "range"
    /\ inv' = IF RangeError(sp.ShareProofs) /= NoError
              THEN [inv EXCEPT !.loc[p] = [inv.loc[p] EXCEPT
                                              !.result = RangeError(sp.ShareProofs),
                                              !.pc = "done"]]
              ELSE Stored(p, 0, [inv.loc[p] EXCEPT !.pc = "verify"])
    /\ UNCHANGED << main, wire, tx >>

\* VerifyProof: the slice and the verifier call of one iteration
ConcVerifyRow(p) ==
    /\ inv.loc[p].pc = "verify"
    /\ inv.loc[p].i <= Len(sp.ShareProofs)
    /\ LET l == inv.loc[p]
           out == RowOutcome(sp, l.i, inv.cursor[CursorCell(p)])
       IN  inv' = Loaded(p, IF out = "accept" THEN [l EXCEPT !.pc = "advance"]
                            ELSE IF out = "reject" THEN [l EXCEPT !.valid = FALSE, !.pc = "verified"]
                            ELSE [l EXCEPT !.result = Panicked, !.pc = "done"])
    /\ UNCHANGED << main, wire, tx >>

\* VerifyProof: cursor += sharesUsed, next iteration
ConcAdvance(p) ==
    /\ inv.loc[p].pc = "advance"
    /\ LET l == inv.loc[p]
           read == Loaded(p, l)
       IN  inv' = [Stored(p, NextCursor(sp.ShareProofs[l.i], inv.cursor[CursorCell(p)]),
                          [l EXCEPT !.i = l.i + 1, !.pc = "verify"])
                   EXCEPT !.observed = read.observed]
    /\ UNCHANGED << main, wire, tx >>

\* VerifyProof: the loop is exhausted, return true
ConcVerifyEnd(p) ==
    /\ inv.loc[p].pc = "verify"
    /\ inv.loc[p].i > Len(sp.ShareProofs)
    /\ inv' = [inv EXCEPT !.loc[p] = [inv.loc[p] EXCEPT !.valid = TRUE, !.pc = "verified"]]
    /\ UNCHANGED << main, wire, tx >>

\* VerifyProof called directly returns its boolean
ConcReturn(p) ==
    /\ inv.loc[p].pc = "verified"
    /\ inv.loc[p].op = "VerifyProof"
    /\ inv' = [inv EXCEPT !.loc[p] =
                  [inv.loc[p] EXCEPT !.result = IF inv.loc[p].valid THEN "true" ELSE "false",
                                     !.pc = "done"]]
    /\ UNCHANGED << main, wire, tx >>

\* Validate: `if !valid` after VerifyProof
ConcValid(p) ==
    /\ inv.loc[p].pc = "verified"
    /\ inv.loc[p].op = "Validate"
    /\ inv' = [inv EXCEPT !.loc[p] =
                  IF ~inv.loc[p].valid
                  THEN [inv.loc[p] EXCEPT !.result = ErrInconsistent, !.pc = "done"]
                  ELSE [inv.loc[p] EXCEPT !.pc = "rowproof"]]
    /\ UNCHANGED << main, wire, tx >>

\* Validate: sp.RowProof.Validate(root)
ConcRowProof(p) ==
    /\ inv.loc[p].pc = "rowproof"
    /\ inv' = [inv EXCEPT !.loc[p] =
                  [inv.loc[p] EXCEPT !.result = RowProofValidate(sp.RowProof, root),
                                     !.pc = "done"]]
    /\ UNCHANGED << main, wire, tx >>

NextConc ==
    \E p \in Procs :
        \/ ConcCall(p)
        \/ ConcCount(p)
        \/ ConcRange(p)
        \/ ConcVerifyRow(p)
        \/ ConcAdvance(p)
        \/ ConcVerifyEnd(p)
        \/ ConcReturn(p)
        \/ ConcValid(p)
        \/ ConcRowProof(p)

SpecConc == InitConc /\ [][NextConc]_vars

\* ============================================================== properties
\* Exact (unbounded) integers as pairs <<h, l>> standing for h * 2^16 + l, 0 <= l < 2^16.
PairAdd(a, b) ==
    LET lo == a[2] + b[2]
        carry == IF lo >= Half THEN 1 ELSE 0
    IN  << a[1] + b[1] + carry, lo - carry * Half >>

PairOf(n) == << Hi(n), Lo(n) >>

\* End - Start of a row as an exact integer
ExactLen(proof) ==
    LET lo == Lo(proof.End) - Lo(proof.Start)
        borrow == IF lo < 0 THEN 1 ELSE 0
    IN  << Hi(proof.End) - Hi(proof.Start) - borrow, lo + borrow * Half >>

\* the exact sum of End - Start over the first n rows
RECURSIVE ExactSum(_, _)
ExactSum(shareProofs, n) ==
    IF n = 0 THEN PairOf(0)
    ELSE PairAdd(ExactSum(shareProofs, n - 1), ExactLen(shareProofs[n]))

\* len(Data) equals the mathematical sum of the declared ranges
ExactCountOK(p) == ExactSum(p.ShareProofs, Len(p.ShareProofs)) = PairOf(Len(p.Data))

\* some declared range has a negative start or is empty (End <= Start)
SomeRangeInvalid(p) ==
    \E k \in 1..Len(p.ShareProofs) :
        p.ShareProofs[k].Start < 0 \/ p.ShareProofs[k].End <= p.ShareProofs[k].Start

RangeErrors == {ErrNegativeIndex, ErrNonPositiveTotal}

\* every slice and index expression evaluated so far was in bounds
AllInBounds ==
    \A t \in 1..Len(trace) :
        /\ SliceInBounds(trace[t].low, trace[t].high, Len(sp.Data))
        /\ IndexInBounds(trace[t].row, Len(sp.RowProof.RowRoots))

\* C1: Validate never panics: every slice Data[cursor : cursor+(End-Start)] it
\* evaluates lies within Data and every index used on RowRoots is below its length.
C1_ValidateNeverPanics ==
    op = "Validate" => (result /= Panicked /\ AllInBounds)

\* C2: whenever len(Data) differs from the mathematical sum of End - Start,
\* Validate returns the count-mismatch error.
C2_CountLaw ==
    (op = "Validate" /\ pc = "done" /\ ~ExactCountOK(sp)) => result = ErrInvalidCounts

\* C3: whenever len(RowRoots) /= len(ShareProofs), Validate returns the
\* count-mismatch error, and none of the later steps is entered.
C3_RowCountLaw ==
    (op = "Validate" /\ Len(sp.RowProof.RowRoots) /= Len(sp.ShareProofs)) =>
        /\ pc \in {"count", "done"}
        /\ pc = "done" => result = ErrInvalidCounts
        /\ trace = << >>

C3_Witness ==
    /\ op = "Validate" /\ pc = "done"
    /\ Len(sp.RowProof.RowRoots) /= Len(sp.ShareProofs)
    /\ Int32OfLen(Len(sp.Data)) = NumberOfSharesInProofs(sp.ShareProofs)
    /\ sp.ShareProofs /= << >>
    /\ result = ErrInvalidCounts

\* C4: a proof passing the count check in which some range has Start < 0 or
\* End <= Start makes Validate return an invalid-range error.
C4_RangeLaw ==
    (op = "Validate" /\ pc = "done" /\ ~CountMismatch(sp) /\ SomeRangeInvalid(sp)) =>
        result \in RangeErrors

\* the first failing step of the four, each step taken as the specification states it
CountStepOK(p) == Len(p.RowProof.RowRoots) = Len(p.ShareProofs) /\ ExactCountOK(p)
RangeStepOK(p) == ~SomeRangeInvalid(p)

\* C5: Validate returns the error of the first failing step in the order count
\* consistency, range sanity, VerifyProof, RowProof.Validate, and nil iff all pass.
C5_StepOrder ==
    (op = "Validate" /\ pc = "done") =>
        /\ ~CountStepOK(sp) => result = ErrInvalidCounts
        /\ (CountStepOK(sp) /\ ~RangeStepOK(sp)) => result \in RangeErrors
        /\ (CountStepOK(sp) /\ RangeStepOK(sp) /\ ~valid) => result = ErrInconsistent
        /\ (CountStepOK(sp) /\ RangeStepOK(sp) /\ valid) =>
               result = RowProofValidate(sp.RowProof, root)
        /\ result = NoError <=>
               (/\ CountStepOK(sp) /\ RangeStepOK(sp) /\ valid
                /\ RowProofValidate(sp.RowProof, root) = NoError)

\* no int32 operation of Validate or VerifyProof wraps on p
NoWrap(p) ==
    /\ \A k \in 1..Len(p.ShareProofs) :
          ExactLen(p.ShareProofs[k]) = PairOf(SharesUsed(p.ShareProofs[k]))
    /\ \A k \in 0..Len(p.ShareProofs) :
          ExactSum(p.ShareProofs, k) = PairOf(NumberOfSharesInProofs(SubSeq(p.ShareProofs, 1, k)))

\* the step order of C5 on the proofs whose ranges do not overflow int32
StepOrderNoWrap == NoWrap(sp) => C5_StepOrder

\* C6: VerifyProof called directly never panics and never reads Data or RowRoots
\* out of bounds; it ends returning true or false.
C6_VerifyProofNeverPanics ==
    op = "VerifyProof" =>
        /\ result /= Panicked
        /\ AllInBounds
        /\ pc = "done" => result \in {"true", "false"}

\* the window of Data the specification assigns to row k: it starts at the exact
\* sum of End - Start over the rows before k and holds End - Start shares
WindowLow(p, k) == ExactSum(p.ShareProofs, k - 1)
WindowHigh(p, k) == ExactSum(p.ShareProofs, k)
WindowInData(p, k) ==
    /\ WindowLow(p, k)[1] = 0
    /\ WindowHigh(p, k)[1] = 0
    /\ WindowLow(p, k)[2] <= WindowHigh(p, k)[2]
    /\ WindowHigh(p, k)[2] <= Len(p.Data)

\* the Row-Inclusion Verifier accepts row k on its window, its row root and the
\* proof's one namespace
RowAccepted(p, k) ==
    /\ WindowInData(p, k)
    /\ k <= Len(p.RowProof.RowRoots)
    /\ VerifyInclusion(p.ShareProofs[k].Start, p.ShareProofs[k].End, p.ShareProofs[k].Nodes,
                       p.NamespaceID,
                       SubSeq(p.Data, WindowLow(p, k)[2] + 1, WindowHigh(p, k)[2]),
                       p.RowProof.RowRoots[k])

PassesChecks(p) == ~CountMismatch(p) /\ RangeError(p.ShareProofs) = NoError

\* VerifyProof has come to its end (returned, or panicked)
VerifyProofEnded ==
    op \in {"Validate", "VerifyProof"} /\ pc \in {"verified", "rowproof", "done"}

\* C7: on a proof that passes the count and range checks, VerifyProof returns
\* true iff the verifier accepts every row on the window starting at the sum of
\* the earlier rows' share counts.
C7_VerifyProofIffAllRows ==
    (VerifyProofEnded /\ PassesChecks(sp)) =>
        (valid <=> \A k \in 1..Len(sp.ShareProofs) : RowAccepted(sp, k))

C7_Witness ==
    /\ pc = "done" /\ PassesChecks(sp) /\ valid
    /\ Len(sp.ShareProofs) = 2
    /\ cursor = 3
    /\ \A k \in 1..2 : RowAccepted(sp, k)

\* --- proofs a producer derives from the block for rows a..b (1-based), the
\* first row from share x on, the last row up to share y
HonestStart(a, x, k) == IF k = a THEN x ELSE 0
HonestEnd(b, y, k) == IF k = b THEN y ELSE Len(Block[k])

RECURSIVE HonestData(_, _, _, _, _)
HonestData(a, b, x, y, k) ==
    IF k > b THEN << >>
    ELSE SubSeq(Block[k], HonestStart(a, x, k) + 1, HonestEnd(b, y, k))
             \o HonestData(a, b, x, y, k + 1)

HonestProof(a, b, x, y) ==
    ShareProof(
        HonestData(a, b, x, y, a),
        [j \in 1..(b - a + 1) |->
            NMTProof(HonestStart(a, x, a + j - 1), HonestEnd(b, y, a + j - 1),
                     GenuineNodes(RowRootOf[a + j - 1], HonestStart(a, x, a + j - 1),
                                  HonestEnd(b, y, a + j - 1)))],
        TrueNamespace,
        RowProof([j \in 1..(b - a + 1) |-> RowRootOf[a + j - 1]],
                 [j \in 1..(b - a + 1) |->
                     MerkleProof(TotalRows, a + j - 2, RowRootOf[a + j - 1],
                                 GenuineAunts(a + j - 2))],
                 a - 1, b - 1))

HonestParams ==
    UNION { { << a, b, x, y >> : x \in 0..(Len(Block[a]) - 1), y \in 1..Len(Block[b]) } :
            a \in 1..TotalRows, b \in 1..TotalRows }

HonestProofs ==
    { HonestProof(q[1], q[2], q[3], q[4]) :
        q \in { q \in HonestParams : q[1] <= q[2] /\ (q[1] = q[2] => q[3] < q[4]) } }

\* C8: completeness: Validate(true data root) returns nil on every proof a
\* producer derives from the block, one row or several, every row accepted in turn.
C8_Completeness ==
    (op = "Validate" /\ pc = "done" /\ sp \in HonestProofs /\ root = DataRoot) =>
        /\ result = NoError
        /\ Len(trace) = Len(sp.ShareProofs)
        /\ \A t \in 1..Len(trace) : trace[t].outcome = "accept"

C8_Witness ==
    /\ op = "Validate" /\ pc = "done" /\ root = DataRoot
    /\ sp = HonestProof(1, 2, 0, 1)
    /\ sp.Data = << "s0", "s1", "s2" >>
    /\ sp.RowProof.StartRow = 0 /\ sp.RowProof.EndRow = 1
    /\ result = NoError

\* the tampered proof still has as many shares as its ranges declare
DataCountOK(p) == Int32OfLen(Len(p.Data)) = NumberOfSharesInProofs(p.ShareProofs)

\* C9 as stated: after one share of a proof on which VerifyProof returned true
\* is replaced, VerifyProof returns false.
C9_TamperAnyVerified ==
    (prev.kind = "replace" /\ prev.verified /\ VerifyProofEnded) => ~valid

\* C9 amended: after one share is replaced in a proof on which VerifyProof
\* returned true and whose Data has exactly as many shares as its ranges declare,
\* VerifyProof returns false and Validate returns an error.
C9_TamperEvidence ==
    (prev.kind = "replace" /\ prev.verified /\ DataCountOK(sp)) =>
        /\ VerifyProofEnded => ~valid
        /\ (VerifyProofEnded /\ pc = "done") => result \in {"false", ErrInconsistent, ErrInvalidCounts}

C9_Witness ==
    /\ prev.kind = "replace" /\ prev.verified /\ DataCountOK(sp)
    /\ pc = "done" /\ op = "Validate"
    /\ Len(sp.ShareProofs) = 2
    /\ result = ErrInconsistent

\* C10: after the shares of a multi-row proof that passed the count and range
\* checks and verified are reordered (ranges, row roots and proofs unchanged), the
\* count check still passes and VerifyProof returns false.
C10_CursorMisalignment ==
    (prev.kind = "reorder" /\ prev.verified /\ prev.passed /\ Len(sp.ShareProofs) >= 2) =>
        /\ ~CountMismatch(sp)
        /\ VerifyProofEnded => ~valid
        /\ (VerifyProofEnded /\ pc = "done") => result \in {"false", ErrInconsistent}

C10_Witness ==
    /\ prev.kind = "reorder" /\ prev.validated
    /\ sp.Data = << "s2", "s0", "s1" >>
    /\ Len(sp.ShareProofs) = 2
    /\ op = "VerifyProof" /\ pc = "done" /\ result = "false"

\* a finished invocation of RowProof.Validate, alone or as the last step of Validate
RowProofDone == pc = "done" /\ op \in {"Validate", "RowProof.Validate"}

RowCountWrong(rp) ==
    rp.StartRow > rp.EndRow \/ rp.EndRow - rp.StartRow + 1 /= Len(rp.RowRoots)

\* C13: RowProof.Validate called on its own rejects every RowProof with
\* StartRow > EndRow or EndRow - StartRow + 1 /= len(RowRoots); every ShareProof
\* Validate accepts has len(RowRoots) = len(ShareProofs) = EndRow - StartRow + 1.
C13_RowProofCounts ==
    /\ (pc = "done" /\ op = "RowProof.Validate" /\ RowCountWrong(sp.RowProof)) =>
           result = ErrRowProof
    /\ (pc = "done" /\ op = "Validate" /\ result = NoError) =>
           /\ Len(sp.RowProof.RowRoots) = Len(sp.ShareProofs)
           /\ Len(sp.ShareProofs) = sp.RowProof.EndRow - sp.RowProof.StartRow + 1

C13_Witness ==
    /\ pc = "done" /\ op = "RowProof.Validate"
    /\ sp.RowProof.StartRow <= sp.RowProof.EndRow
    /\ Len(sp.RowProof.RowRoots) = 2
    /\ RowCountWrong(sp.RowProof)
    /\ result = ErrRowProof

\* C14: RowProof.Validate accepts only if every path carries the index
\* StartRow + i and verifies its row root against the data root; after two row
\* roots are swapped together with their paths it fails.
C14_OrderSensitivity ==
    /\ (RowProofDone /\ result = NoError) =>
           \A k \in 1..Len(sp.RowProof.RowRoots) :
               /\ sp.RowProof.Proofs[k].Index = sp.RowProof.StartRow + (k - 1)
               /\ MerkleVerify(sp.RowProof.Proofs[k], root, sp.RowProof.RowRoots[k])
    /\ (prev.kind = "swap" /\ prev.rowValid /\ RowProofDone) => result /= NoError
    /\ (prev.kind = "swap" /\ prev.rowValid /\ pc = "done" /\ op = "RowProof.Validate") =>
           result = ErrRowProof

C14_Witness ==
    /\ prev.kind = "swap" /\ prev.rowValid
    /\ pc = "done" /\ op = "RowProof.Validate"
    /\ sp.RowProof.RowRoots = << "R1", "R0" >>
    /\ sp.RowProof.StartRow = 0 /\ sp.RowProof.EndRow = 1
    /\ result = ErrRowProof

\* C15: no step of Validate, VerifyProof or RowProof.Validate changes the proof
\* or the root, and a second call on the same proof and root returns what the
\* first returned.
C15_Pure ==
    /\ [][pc /= "done" => (sp' = sp /\ root' = root)]_vars
    /\ [](( prev.kind = "again" /\ pc = "done") => result = prev.result)

C15_Witness ==
    /\ prev.kind = "again" /\ pc = "done"
    /\ op = "Validate" /\ Len(sp.ShareProofs) = 2
    /\ result = NoError /\ prev.result = NoError

\* the verdict of the Row-Inclusion Verifier on the slice a trace entry records
VerdictOf(t) ==
    VerifyInclusion(sp.ShareProofs[t.row].Start, sp.ShareProofs[t.row].End,
                    sp.ShareProofs[t.row].Nodes, sp.NamespaceID,
                    SubSeq(sp.Data, t.low + 1, t.high), sp.RowProof.RowRoots[t.row])

\* C18: VerifyProof visits the rows in increasing order and stops at the first row
\* the verifier rejects: the t-th invocation is for row t, every invocation but
\* the last was accepted, and nothing follows a rejection.
C18_StopsAtFirstReject ==
    /\ \A t \in 1..Len(trace) :
          /\ trace[t].row = t
          /\ t < Len(trace) => trace[t].outcome = "accept"
          /\ trace[t].outcome = "accept" => VerdictOf(trace[t])
          /\ trace[t].outcome = "reject" => ~VerdictOf(trace[t])
    /\ (trace /= << >> /\ trace[Len(trace)].outcome = "reject") => pc /= "verify"
    /\ (VerifyProofEnded /\ valid) => Len(trace) = Len(sp.ShareProofs)

C18_Witness ==
    /\ pc = "done" /\ op = "VerifyProof" /\ result = "false"
    /\ Len(sp.ShareProofs) = 2
    /\ Len(trace) = 1
    /\ ~CountMismatch(sp)

\* the checks of Validate as its code evaluates them
CountCheckFails(p) ==
    \/ Len(p.RowProof.RowRoots) /= Len(p.ShareProofs)
    \/ Int32OfLen(Len(p.Data)) /= NumberOfSharesInProofs(p.ShareProofs)
RangeCheckFails(p) ==
    \E k \in 1..Len(p.ShareProofs) :
        p.ShareProofs[k].Start < 0 \/ Sub32(p.ShareProofs[k].End, p.ShareProofs[k].Start) <= 0

\* C19: in Validate, when the count or the range check fails neither verifier is
\* invoked, and RowProof.Validate is invoked only after VerifyProof returned true.
C19_ChecksBeforeCrypto ==
    op = "Validate" =>
        /\ (CountCheckFails(sp) \/ RangeCheckFails(sp)) =>
               (trace = << >> /\ pc \in {"count", "range", "done"}
                /\ result \notin {NoError, ErrRowProof, ErrInconsistent})
        /\ pc = "rowproof" => valid
        /\ result \in {NoError, ErrRowProof} => valid

C19_Witness ==
    /\ op = "Validate" /\ pc = "done"
    /\ ~CountCheckFails(sp) /\ RangeCheckFails(sp)
    /\ sp.Data /= << >>
    /\ trace = << >>
    /\ result = ErrNonPositiveTotal

ZeroRows(p) == p.ShareProofs = << >> /\ p.RowProof.RowRoots = << >> /\ p.Data = << >>

\* C20: on a proof with no ShareProofs, no RowRoots and empty Data, Validate passes
\* the count and range checks, VerifyProof returns true without invoking the
\* verifier, and Validate returns what RowProof.Validate returns.
C20_ZeroRows ==
    (op = "Validate" /\ ZeroRows(sp)) =>
        /\ trace = << >>
        /\ pc = "done" =>
               (valid /\ result \in {NoError, ErrRowProof}
                /\ result = RowProofValidate(sp.RowProof, root))

C20_Witness ==
    /\ op = "Validate" /\ ZeroRows(sp) /\ pc = "done"
    /\ valid /\ trace = << >>
    /\ sp.RowProof.EndRow < sp.RowProof.StartRow
    /\ result = RowProofValidate(sp.RowProof, root)

\* ------------------------------------------------------------ wire claims
\* a message came in and has been decoded and encoded again
RoundTripped == wire.pc = "encoded" /\ wire.pb /= NoValue

\* a well-formed message: row_proof is present and pairs every row root with a path
WellFormed(pb) ==
    /\ pb.row_proof /= NoValue
    /\ Len(pb.row_proof.row_roots) = Len(pb.row_proof.proofs)

\* C11: round trip: for a well-formed message pb, ShareProofFromProto(pb) followed
\* by ToProto() does not panic and yields a message equal to pb in every field.
C11_RoundTrip ==
    (wire.pb /= NoValue /\ WellFormed(wire.pb)) =>
        /\ wire.pc /= "panic"
        /\ wire.pc = "encoded" => wire.out = wire.pb

C11_Witness ==
    /\ RoundTripped
    /\ WellFormed(wire.pb)
    /\ Len(wire.pb.row_proof.proofs) = MaxWire
    /\ wire.pb.row_proof.proofs[1].aunts /= << >>
    /\ wire.pb.share_proofs /= << >>
    /\ wire.out = wire.pb

\* C12: ShareProofFromProto returns a ShareProof and a nil error for every
\* message: it never panics, whatever the message holds.
C12_FromProtoTotal ==
    (wire.pb /= NoValue /\ wire.pc /= "pb") => (wire.sp /= NoValue /\ wire.err = NoError)

\* -------------------------------------------------------- TxSearch claims
TxSucceeded == tx.pc = "done" /\ tx.err = NoError

\* the smaller of two integers
MinOf(a, b) == IF a <= b THEN a ELSE b

\* C17: TxSearch, on success, returns at most perPage entries in Txs, exactly
\* min(perPage, totalCount - skipCount) of them, and TotalCount is the number of
\* all results of the query before pagination.
C17_Pagination ==
    TxSucceeded =>
        /\ Len(tx.out.Txs) <= tx.page.perPage
        /\ Len(tx.out.Txs) = MinOf(tx.page.perPage, Len(tx.results) - tx.page.skipCount)
        /\ tx.out.TotalCount = Len(tx.results)

C17_Witness ==
    /\ TxSucceeded
    /\ Len(tx.results) = MaxResults
    /\ tx.page.perPage = 2
    /\ tx.page.skipCount = 2
    /\ Len(tx.out.Txs) = Len(tx.results) - 2
    /\ tx.out.TotalCount = MaxResults

\* ----------------------------------------------------- concurrency claims
\* what VerifyProof returns on p when run alone, from row k at cursor cur
RECURSIVE VerifyAlone(_, _, _)
VerifyAlone(p, k, cur) ==
    IF k > Len(p.ShareProofs) THEN "true"
    ELSE LET out == RowOutcome(p, k, cur)
         IN  IF out = "accept" THEN VerifyAlone(p, k + 1, NextCursor(p.ShareProofs[k], cur))
             ELSE IF out = "reject" THEN "false"
             ELSE Panicked

\* what Validate returns on p when run alone
ValidateAlone(p, rootHash) ==
    IF CountMismatch(p) THEN ErrInvalidCounts
    ELSE IF RangeError(p.ShareProofs) /= NoError THEN RangeError(p.ShareProofs)
    ELSE IF VerifyAlone(p, 1, 0) = Panicked THEN Panicked
    ELSE IF VerifyAlone(p, 1, 0) = "false" THEN ErrInconsistent
    ELSE RowProofValidate(p.RowProof, rootHash)

ResultAlone(o) == IF o = "Validate" THEN ValidateAlone(sp, root) ELSE VerifyAlone(sp, 1, 0)

\* C16: concurrent invocations of Validate / VerifyProof on the same ShareProof,
\* interleaved without locking, each return what the invocation returns when
\* run alone, and no invocation observes a write made by another.
C16_ConcurrentSafe ==
    /\ ~inv.observed
    /\ \A p \in Procs :
          inv.loc[p].pc = "done" => inv.loc[p].result = ResultAlone(inv.loc[p].op)

C16_Witness ==
    /\ inv.loc["a"].pc = "done" /\ inv.loc["a"].op = "Validate"
    /\ inv.loc["a"].result = NoError
    /\ inv.loc["b"].pc = "advance" /\ inv.loc["b"].op = "VerifyProof"
    /\ inv.loc["b"].i = 1
    /\ inv.cursor["a"] = 3
    /\ inv.writer = [c \in Procs |-> c]

\* ------------------------------------------------------- partition of Data
\* Validate has returned nil
Accepted == op = "Validate" /\ pc = "done" /\ result = NoError

\* Validate has passed its own checks and VerifyProof: every accepted proof has
PassedVerifyProof == op = "Validate" /\ pc \in {"rowproof", "done"} /\ valid

\* where the slice of the last row visited ends (0 before any row)
LastSliceEnd == IF trace = << >> THEN 0 ELSE trace[Len(trace)].high

\* C21: for every ShareProof accepted by Validate the slices of Data handed to
\* the Row-Inclusion Verifier partition Data in row order: one slice per row, the
\* first starting at 0, each starting where the previous one ended, each
\* non-empty and of length End - Start, the last ending at len(Data).  It holds
\* as soon as VerifyProof has returned true, whatever RowProof.Validate says.
C21_Partition ==
    (Accepted \/ PassedVerifyProof) =>
        /\ Len(trace) = Len(sp.ShareProofs)
        /\ \A k \in 1..Len(trace) :
              /\ trace[k].row = k
              /\ trace[k].low = (IF k = 1 THEN 0 ELSE trace[k - 1].high)
              /\ trace[k].low < trace[k].high
              /\ PairOf(trace[k].high - trace[k].low) = ExactLen(sp.ShareProofs[k])
        /\ LastSliceEnd = Len(sp.Data)

C21_Witness ==
    /\ Accepted
    /\ Len(sp.ShareProofs) = 2
    /\ Len(sp.Data) = 3
    /\ trace[1].low = 0 /\ trace[1].high = 2
    /\ trace[2].low = 2 /\ trace[2].high = 3

\* ------------------------------------------------- TxSearch ordering claims
\* a comes before b in ascending (Height, then Index) order
Before(a, b) == a.Height < b.Height \/ (a.Height = b.Height /\ a.Index < b.Index)

\* 0-based position of key in all the results in the order asked for
RankOf(key, results, orderBy) ==
    Cardinality({k \in 1..Len(results) :
        IF orderBy = "desc" THEN Before(key, results[k]) ELSE Before(results[k], key)})

KeyOf(r) == [Height |-> r.Height, Index |-> r.Index]

TxDone == tx.pc = "done"

\* C22: TxSearch sorts all results before paginating: with order_by "asc" or
\* empty the page is the slice [skipCount, skipCount+pageSize) of the results in
\* ascending (Height, Index) order, with "desc" that slice of the descending
\* order; any other order_by gives an error and no results; with the null
\* indexer an error is returned before any query is parsed or searched.
C22_SortThenPaginate ==
    /\ TxSucceeded =>
          /\ tx.orderBy \in {"asc", "desc", ""}
          /\ \A n \in 1..Len(tx.out.Txs) :
                /\ \E k \in 1..Len(tx.results) : tx.results[k] = KeyOf(tx.out.Txs[n])
                /\ RankOf(KeyOf(tx.out.Txs[n]), tx.results, tx.orderBy)
                       = tx.page.skipCount + (n - 1)
    /\ (TxDone /\ tx.orderBy \notin {"asc", "desc", ""}) =>
          (tx.err \notin {NoError, Panicked} /\ tx.out = NoValue)
    /\ (TxDone /\ "null indexer" \in tx.failure) =>
          (tx.err = ErrIndexing /\ tx.out = NoValue /\ tx.calls = << >>)

\* a second page in descending order of results the indexer returned unsorted
C22_Witness ==
    /\ TxSucceeded
    /\ tx.orderBy = "desc"
    /\ Len(tx.results) = MaxResults
    /\ Before(tx.results[2], tx.results[1]) /\ Before(tx.results[2], tx.results[3])
    /\ tx.page.skipCount = 1
    /\ Len(tx.out.Txs) = 2
    /\ Before(KeyOf(tx.out.Txs[2]), KeyOf(tx.out.Txs[1]))

\* ------------------------------------------- wire claims, unequal counts
\* a wire path and a merkle.Proof holding the same four fields
SamePath(pbp, mp) ==
    /\ pbp /= NoValue
    /\ mp /= NoValue
    /\ pbp.total = mp.Total
    /\ pbp.index = mp.Index
    /\ pbp.leaf_hash = mp.LeafHash
    /\ pbp.aunts = mp.Aunts

\* the row roots and paths of a message and of a ShareProof agree element-wise
SameRows(rp, rowProof) ==
    /\ rp.row_roots = rowProof.RowRoots
    /\ Len(rp.proofs) = Len(rowProof.Proofs)
    /\ \A k \in 1..Len(rp.proofs) : SamePath(rp.proofs[k], rowProof.Proofs[k])

\* ShareProofFromProto has run on a message that has a row_proof
Decoded == wire.pb /= NoValue /\ wire.pb.row_proof /= NoValue /\ wire.pc /= "pb"

\* ToProto has run on the ShareProof wire.sp
Encoded == wire.sp /= NoValue /\ wire.pc \in {"encoded", "panic"}

\* C23: the wire conversions are lossless and in bounds whatever the numbers of
\* row roots and Merkle paths: ShareProofFromProto on a message with a row_proof
\* and ToProto on any ShareProof never index past the end of a slice, and return
\* row roots and paths equal element-wise to those they were given.
C23_LosslessInBounds ==
    /\ Decoded => (wire.sp /= NoValue /\ SameRows(wire.pb.row_proof, wire.sp.RowProof))
    /\ Encoded => (wire.pc = "encoded" /\ SameRows(wire.out.row_proof, wire.sp.RowProof))
====
